---------------------------- MODULE Spec2Model ----------------------------
(***************************************************************************)
(* Error-and-validation pipeline of the liga-muertos backend               *)
(* (back/src/utils/error/mod.rs, back/src/utils/error/validation.rs,       *)
(* back/src/utils/mod.rs).                                                 *)
(*                                                                         *)
(* Text conventions.  A Rust &str handed in from outside (a request field, *)
(* the Display text of a foreign failure) is a sequence of characters,     *)
(* each character a one-character TLA+ string, so that trimming, counting  *)
(* bytes and substring search are computed on it.  A String the code       *)
(* produces (format!, to_string) is a TLA+ string built with \o.           *)
(***************************************************************************)
EXTENDS Integers, Sequences, FiniteSets, TLC

VARIABLES
    closures,   \* per pass: the closures the caller chains, in call order
    builder,    \* per pass: the ValidationBuilder value (its errors), or None
    position,   \* per pass: how many .validate(..) calls of the chain are done
    executed,   \* per pass: the closures invoked so far, in invocation order
    result,     \* per pass: the build / build_unit call made and what it returned, or None
    foreign,    \* the foreign failure / ValidationError an ApiError came from, or None
    err,        \* the ApiError of the request in flight, or None
    log,        \* the log events emitted during the life of err
    response,   \* the rendered HttpResponse, or None
    call,       \* the function or handler being called with its arguments, or None
    ret,        \* what that call returned, or None
    main,       \* where main() of the server is
    port,       \* the port main() parsed, or None
    db,         \* the operations main() has asked of the global DB client, with their outcome
    exit,       \* what main() returned (or its panic), or None while it runs
    listening   \* whether the HTTP server is bound and accepting requests

validationVars == <<closures, builder, position, executed, result>>
errorVars == <<foreign, err, log, response>>
primitiveVars == <<call, ret>>
serverVars == <<main, port, db, exit, listening>>
vars == <<closures, builder, position, executed, result, foreign, err, log, response,
          call, ret, main, port, db, exit, listening>>

None == [none |-> TRUE]
Some(v) == [some |-> v]
IsSome(o) == o # None

----------------------------------------------------------------------------
(* Bounds of the model *)

\* longest chain of .validate(..) calls of one pass
MaxClosures == 3
\* most fragments a foreign failure's text is put together from
MaxFrags == 3
\* validation passes that exist side by side
NumPasses == 2
\* longest enumerated part of a string handed to a validator primitive
MaxStrLen == 3
\* largest magnitude of the small integers handed to range / positive_integer
MaxInt == 3

Passes == 1..NumPasses

----------------------------------------------------------------------------
(* str primitives of the standard library, on character sequences *)

\* bytes of the UTF-8 encoding of one character (the alphabet of the model
\* holds one two-byte character)
Utf8Width(c) == IF c = "é" THEN 2 ELSE 1

\* str::len: the length in bytes, one for every character and one more for
\* every two-byte character
StrLen(s) == Len(s) + Cardinality({i \in 1..Len(s) : Utf8Width(s[i]) = 2})

\* char::is_whitespace on the alphabet of the model
IsWhitespace(c) == c \in {" ", "\t", "\n"}

\* the positions of s that hold no whitespace
NonWhitespace(s) == {i \in 1..Len(s) : ~IsWhitespace(s[i])}

\* str::trim_start: s from its first character that is no whitespace
TrimStart(s) ==
    IF NonWhitespace(s) = {} THEN <<>>
    ELSE SubSeq(s, CHOOSE i \in NonWhitespace(s) : \A j \in NonWhitespace(s) : i <= j,
                Len(s))

\* str::trim_end: s up to its last character that is no whitespace
TrimEnd(s) ==
    IF NonWhitespace(s) = {} THEN <<>>
    ELSE SubSeq(s, 1,
                CHOOSE i \in NonWhitespace(s) : \A j \in NonWhitespace(s) : j <= i)

\* str::trim
Trim(s) == TrimEnd(TrimStart(s))

\* str::contains with a &str pattern: pat occurs in s as a contiguous run
Contains(s, pat) ==
    \E i \in 0..(Len(s) - Len(pat)) : SubSeq(s, i + 1, i + Len(pat)) = pat

\* to_string of a &str: the String with the same characters
RECURSIVE StrOf(_)
StrOf(s) == IF s = <<>> THEN "" ELSE Head(s) \o StrOf(Tail(s))

----------------------------------------------------------------------------
(* validation.rs: ValidationError, ValidationErrors *)

\* ValidationError::with_field
ValidationError_with_field(message, field, code) ==
    [message |-> message, field |-> Some(field), code |-> code]

\* ValidationError::new
ValidationError_new(message, code) ==
    [message |-> message, field |-> None, code |-> code]

\* ValidationErrors::new
ValidationErrors_new == [errors |-> <<>>]

\* ValidationErrors::add
ValidationErrors_add(self, error) == [errors |-> Append(self.errors, error)]

\* ValidationErrors::has_errors
ValidationErrors_has_errors(self) == self.errors # <<>>

Ok(v) == [ok |-> TRUE, value |-> v]
Err(e) == [ok |-> FALSE, error |-> e]

\* the unit value ()
Unit == "()"

----------------------------------------------------------------------------
(* validation.rs: mod validators *)

\* required that hands back the value as it came
required_untrimmed(value, field) ==
    IF IsSome(value) /\ Trim(value.some) # <<>>
    THEN Ok(value.some)
    ELSE Err(ValidationError_with_field(field \o " is required", field, "REQUIRED"))

\* validators::required
required(value, field) ==
    IF IsSome(value) /\ Trim(value.some) # <<>>
    THEN Ok(Trim(value.some))
    ELSE Err(ValidationError_with_field(field \o " is required", field, "REQUIRED"))

\* validators::length
length(value, min, max, field) ==
    LET len == StrLen(value) IN
    IF len < min \/ len > max
    THEN Err(ValidationError_with_field(
             field \o " must be between " \o ToString(min) \o " and "
                   \o ToString(max) \o " characters",
             field, "LENGTH"))
    ELSE Ok(Unit)

\* validators::positive_integer
positive_integer(value, field) ==
    IF value > 0
    THEN Ok(Unit)
    ELSE Err(ValidationError_with_field(
             field \o " must be a positive integer", field, "NOT_POSITIVE"))

\* range whose lower bound is exclusive
range_exclusive_min(value, min, max, field) ==
    IF value > min /\ value <= max
    THEN Ok(Unit)
    ELSE Err(ValidationError_with_field(
             field \o " must be between " \o ToString(min) \o " and " \o ToString(max),
             field, "OUT_OF_RANGE"))

\* validators::range
range(value, min, max, field) ==
    IF value >= min /\ value <= max
    THEN Ok(Unit)
    ELSE Err(ValidationError_with_field(
             field \o " must be between " \o ToString(min) \o " and " \o ToString(max),
             field, "OUT_OF_RANGE"))

\* Result::map(|_| ()), as the callers wrap required(..)
MapUnit(r) == IF r.ok THEN Ok(Unit) ELSE r

----------------------------------------------------------------------------
(* char predicates of the standard library, on the alphabet of the model *)

AsciiLowercase ==
    {"a", "b", "c", "d", "e", "f", "g", "h", "i", "j", "k", "l", "m", "n", "o",
     "p", "q", "r", "s", "t", "u", "v", "w", "x", "y", "z"}
AsciiUppercase ==
    {"A", "B", "C", "D", "E", "F", "G", "H", "I", "J", "K", "L", "M", "N", "O",
     "P", "Q", "R", "S", "T", "U", "V", "W", "X", "Y", "Z"}
AsciiDigits == {"0", "1", "2", "3", "4", "5", "6", "7", "8", "9"}

\* char::is_ascii: the characters UTF-8 encodes in one byte
is_ascii(c) == Utf8Width(c) = 1

\* char::is_ascii_digit
is_ascii_digit(c) == c \in AsciiDigits

\* char::is_lowercase (Unicode: the two-byte letter of the alphabet is one)
is_lowercase(c) == c \in AsciiLowercase \cup {"é"}

\* char::is_uppercase
is_uppercase(c) == c \in AsciiUppercase

\* char::is_alphanumeric (Unicode)
is_alphanumeric(c) ==
    c \in AsciiLowercase \cup AsciiUppercase \cup AsciiDigits \cup {"é"}

\* Iterator::all / Iterator::any over chars()
AllChars(s, P(_)) == \A i \in 1..Len(s) : P(s[i])
AnyChar(s, P(_)) == \E i \in 1..Len(s) : P(s[i])

----------------------------------------------------------------------------
(* utils/mod.rs: mod validation *)

\* is_valid_email that forgets the trailing '@'
is_valid_email_trailing_at(email) ==
    /\ AnyChar(email, LAMBDA c : c = "@")
    /\ StrLen(email) > 3
    /\ StrLen(email) < 255
    /\ ~(email # <<>> /\ Head(email) = "@")
    /\ AllChars(email, is_ascii)

\* validation::is_valid_email
is_valid_email(email) ==
    /\ AnyChar(email, LAMBDA c : c = "@")
    /\ StrLen(email) > 3
    /\ StrLen(email) < 255
    /\ ~(email # <<>> /\ Head(email) = "@")
    /\ ~(email # <<>> /\ email[Len(email)] = "@")
    /\ AllChars(email, is_ascii)

\* is_valid_username that does not look at the first character
is_valid_username_any_first(username) ==
    LET MIN_LENGTH == 3
        MAX_LENGTH == 50
    IN IF StrLen(username) < MIN_LENGTH \/ StrLen(username) > MAX_LENGTH
       THEN FALSE
       ELSE AllChars(username, LAMBDA c : is_alphanumeric(c) \/ c = "-" \/ c = "_")

\* validation::is_valid_username
is_valid_username(username) ==
    LET MIN_LENGTH == 3
        MAX_LENGTH == 50
    IN IF StrLen(username) < MIN_LENGTH \/ StrLen(username) > MAX_LENGTH
       THEN FALSE
       ELSE IF ~(IF username = <<>> THEN FALSE ELSE is_alphanumeric(Head(username)))
       THEN FALSE
       ELSE AllChars(username, LAMBDA c : is_alphanumeric(c) \/ c = "-" \/ c = "_")

\* is_valid_tournament_name that accepts names of whitespace only
is_valid_tournament_name_blank(name) ==
    LET MIN_LENGTH == 3
        MAX_LENGTH == 100
    IN ~(name = <<>> \/ StrLen(name) < MIN_LENGTH \/ StrLen(name) > MAX_LENGTH)

\* validation::is_valid_tournament_name
is_valid_tournament_name(name) ==
    LET MIN_LENGTH == 3
        MAX_LENGTH == 100
    IN IF name = <<>> \/ StrLen(name) < MIN_LENGTH \/ StrLen(name) > MAX_LENGTH
       THEN FALSE
       ELSE Trim(name) # <<>>

\* is_valid_password that asks for no digit
is_valid_password_no_digit(password) ==
    LET MIN_LENGTH == 8
        MAX_LENGTH == 128
    IN IF StrLen(password) < MIN_LENGTH \/ StrLen(password) > MAX_LENGTH
       THEN FALSE
       ELSE AnyChar(password, is_lowercase) /\ AnyChar(password, is_uppercase)

\* validation::is_valid_password
is_valid_password(password) ==
    LET MIN_LENGTH == 8
        MAX_LENGTH == 128
    IN IF StrLen(password) < MIN_LENGTH \/ StrLen(password) > MAX_LENGTH
       THEN FALSE
       ELSE LET has_lowercase == AnyChar(password, is_lowercase)
                has_uppercase == AnyChar(password, is_uppercase)
                has_digit == AnyChar(password, is_ascii_digit)
            IN has_lowercase /\ has_uppercase /\ has_digit

----------------------------------------------------------------------------
(* validation.rs: mod validators, the primitives built on utils::validation *)

\* validators::email
email(value, field) ==
    IF is_valid_email(value)
    THEN Ok(Unit)
    ELSE Err(ValidationError_with_field("Invalid email format", field, "INVALID_EMAIL"))

\* validators::username
username(value, field) ==
    IF is_valid_username(value)
    THEN Ok(Unit)
    ELSE Err(ValidationError_with_field(
             "Username must be 3-50 characters, start with alphanumeric, and contain only alphanumeric, hyphens, or underscores",
             field, "INVALID_USERNAME"))

\* validators::password
password(value, field) ==
    IF is_valid_password(value)
    THEN Ok(Unit)
    ELSE Err(ValidationError_with_field(
             "Password must be 8-128 characters with at least one lowercase, uppercase, and digit",
             field, "WEAK_PASSWORD"))

\* validators::tournament_name
tournament_name(value, field) ==
    IF is_valid_tournament_name(value)
    THEN Ok(Unit)
    ELSE Err(ValidationError_with_field(
             "Tournament name must be 3-100 characters and not empty",
             field, "INVALID_TOURNAMENT_NAME"))

----------------------------------------------------------------------------
(* The closures a caller hands to validate: each wraps one primitive call. *)

ClosureSet ==
    { [fn |-> "required", value |-> None, field |-> "u"],
      [fn |-> "required", value |-> Some(<<" ", "\t">>), field |-> "u"],
      [fn |-> "required", value |-> Some(<<"t", "e", "s", "t">>), field |-> "username"],
      [fn |-> "length", value |-> <<"a", "b">>, min |-> 3, max |-> 10, field |-> "u"],
      [fn |-> "length", value |-> <<"t", "e", "s", "t">>, min |-> 3, max |-> 10,
       field |-> "username"],
      [fn |-> "positive_integer", value |-> -1, field |-> "age"],
      [fn |-> "range", value |-> 5, min |-> 1, max |-> 10, field |-> "n"] }

\* calling the closure: FnOnce() -> Result<(), ValidationError>
Call(c) ==
    CASE c.fn = "required" -> MapUnit(required(c.value, c.field))
      [] c.fn = "length" -> length(c.value, c.min, c.max, c.field)
      [] c.fn = "positive_integer" -> positive_integer(c.value, c.field)
      [] c.fn = "range" -> range(c.value, c.min, c.max, c.field)
      [] c.fn = "username" -> username(c.value, c.field)
      [] c.fn = "email" -> email(c.value, c.field)
      [] c.fn = "password" -> password(c.value, c.field)
      [] c.fn = "tournament_name" -> tournament_name(c.value, c.field)

\* the chains of at most n closures
RECURSIVE Chains(_)
Chains(n) ==
    IF n = 0 THEN {<<>>}
    ELSE LET shorter == Chains(n - 1) IN
         shorter \cup {Append(cs, c) : cs \in shorter, c \in ClosureSet}

\* the values handed to build as success_value
SuccessValues == {"success"}

----------------------------------------------------------------------------
(* validation.rs: ValidationBuilder *)

\* new that hands out the error list of a builder that is still alive
ValidationBuilder_new_shared ==
    IF \E q \in Passes : builder[q] # None
    THEN builder[CHOOSE q \in Passes : builder[q] # None]
    ELSE [errors |-> ValidationErrors_new]

\* ValidationBuilder::new
ValidationBuilder_new == [errors |-> ValidationErrors_new]

\* validate that stops invoking closures after the first failure
ValidationBuilder_validate_short_circuit(self, validation) ==
    IF ValidationErrors_has_errors(self.errors)
    THEN [self |-> self, called |-> <<>>]
    ELSE LET r == Call(validation) IN
         [self |-> IF ~r.ok
                   THEN [errors |-> ValidationErrors_add(self.errors, r.error)]
                   ELSE self,
          called |-> <<validation>>]

\* ValidationBuilder::validate: the builder it returns, and the closures it
\* invoked on the way
ValidationBuilder_validate(self, validation) ==
    LET r == Call(validation) IN
    [self |-> IF ~r.ok
              THEN [errors |-> ValidationErrors_add(self.errors, r.error)]
              ELSE self,
     called |-> <<validation>>]

\* build that fails only on more than one error
ValidationBuilder_build_off_by_one(self, success_value) ==
    IF Len(self.errors.errors) > 1
    THEN Err(self.errors)
    ELSE Ok(success_value)

\* ValidationBuilder::build
ValidationBuilder_build(self, success_value) ==
    IF ValidationErrors_has_errors(self.errors)
    THEN Err(self.errors)
    ELSE Ok(success_value)

\* ValidationBuilder::build_unit
ValidationBuilder_build_unit(self) == ValidationBuilder_build(self, Unit)

\* a caller starts a pass: ValidationBuilder::new() and the chain it will apply
NewBuilder(p) ==
    /\ builder[p] = None
    /\ result[p] = None
    /\ \E cs \in Chains(MaxClosures) : closures' = [closures EXCEPT ![p] = cs]
    /\ builder' = [builder EXCEPT ![p] = ValidationBuilder_new]
    /\ position' = [position EXCEPT ![p] = 0]
    /\ executed' = [executed EXCEPT ![p] = <<>>]
    /\ UNCHANGED <<result, errorVars, primitiveVars, serverVars>>

\* the next .validate(closure) of the chain
Validate(p) ==
    /\ builder[p] # None
    /\ position[p] < Len(closures[p])
    /\ LET step == ValidationBuilder_validate(builder[p], closures[p][position[p] + 1]) IN
        /\ builder' = [builder EXCEPT ![p] = step.self]
        /\ executed' = [executed EXCEPT ![p] = executed[p] \o step.called]
    /\ position' = [position EXCEPT ![p] = position[p] + 1]
    /\ UNCHANGED <<closures, result, errorVars, primitiveVars, serverVars>>

\* .build(success_value) ends the chain and consumes the builder
Build(p, v) ==
    /\ builder[p] # None
    /\ position[p] = Len(closures[p])
    /\ result' = [result EXCEPT ![p] =
                      [call |-> "build", arg |-> v,
                       ret |-> ValidationBuilder_build(builder[p], v)]]
    /\ builder' = [builder EXCEPT ![p] = None]
    /\ UNCHANGED <<closures, position, executed, errorVars, primitiveVars, serverVars>>

\* .build_unit() ends the chain and consumes the builder
BuildUnit(p) ==
    /\ builder[p] # None
    /\ position[p] = Len(closures[p])
    /\ result' = [result EXCEPT ![p] =
                      [call |-> "build_unit", arg |-> Unit,
                       ret |-> ValidationBuilder_build_unit(builder[p])]]
    /\ builder' = [builder EXCEPT ![p] = None]
    /\ UNCHANGED <<closures, position, executed, errorVars, primitiveVars, serverVars>>

\* the caller drops the result; the pass is over
DropResult(p) ==
    /\ result[p] # None
    /\ result' = [result EXCEPT ![p] = None]
    /\ closures' = [closures EXCEPT ![p] = <<>>]
    /\ position' = [position EXCEPT ![p] = 0]
    /\ executed' = [executed EXCEPT ![p] = <<>>]
    /\ UNCHANGED <<builder, errorVars, primitiveVars, serverVars>>

Init ==
    /\ closures = [p \in Passes |-> <<>>]
    /\ builder = [p \in Passes |-> None]
    /\ position = [p \in Passes |-> 0]
    /\ executed = [p \in Passes |-> <<>>]
    /\ result = [p \in Passes |-> None]
    /\ foreign = None
    /\ err = None
    /\ log = <<>>
    /\ response = None
    /\ call = None
    /\ ret = None
    /\ main = "start"
    /\ port = None
    /\ db = <<>>
    /\ exit = None
    /\ listening = FALSE

\* one validation pass, start to end
NextBuilder ==
    \/ NewBuilder(1)
    \/ Validate(1)
    \/ \E v \in SuccessValues : Build(1, v)
    \/ BuildUnit(1)
    \/ DropResult(1)

SpecBuilder == Init /\ [][NextBuilder]_vars

----------------------------------------------------------------------------
(* error/mod.rs: ApiError *)

\* the variants of enum ApiError
Tags ==
    {"Database", "Validation", "Authentication", "Authorization", "NotFound",
     "Conflict", "RateLimit", "ExternalService", "Internal", "BadRequest",
     "JsonParsing", "Tournament", "User"}

Database(message) == [tag |-> "Database", message |-> message]
Validation(message, field) == [tag |-> "Validation", message |-> message, field |-> field]
Authentication(message) == [tag |-> "Authentication", message |-> message]
Authorization(message) == [tag |-> "Authorization", message |-> message]
NotFound(resource, id) == [tag |-> "NotFound", resource |-> resource, id |-> id]
Conflict(message) == [tag |-> "Conflict", message |-> message]
RateLimit(message) == [tag |-> "RateLimit", message |-> message]
ExternalService(service, message) ==
    [tag |-> "ExternalService", service |-> service, message |-> message]
Internal(message) == [tag |-> "Internal", message |-> message]
BadRequest(message) == [tag |-> "BadRequest", message |-> message]
JsonParsing(message) == [tag |-> "JsonParsing", message |-> message]
Tournament(message, tournament_id) ==
    [tag |-> "Tournament", message |-> message, tournament_id |-> tournament_id]
User(message, user_id) == [tag |-> "User", message |-> message, user_id |-> user_id]

\* the Display text thiserror derives from the #[error(..)] attributes
Display(e) ==
    CASE e.tag = "Database" -> "Database error: " \o e.message
      [] e.tag = "Validation" -> "Validation error: " \o e.message
      [] e.tag = "Authentication" -> "Authentication error: " \o e.message
      [] e.tag = "Authorization" -> "Authorization error: " \o e.message
      [] e.tag = "NotFound" ->
            "Resource not found: " \o e.resource \o " with id " \o e.id
      [] e.tag = "Conflict" -> "Conflict: " \o e.message
      [] e.tag = "RateLimit" -> "Rate limit exceeded: " \o e.message
      [] e.tag = "ExternalService" ->
            "External service error: " \o e.service \o " - " \o e.message
      [] e.tag = "Internal" -> "Internal server error: " \o e.message
      [] e.tag = "BadRequest" -> "Bad request: " \o e.message
      [] e.tag = "JsonParsing" -> "JSON parsing error: " \o e.message
      [] e.tag = "Tournament" -> "Tournament error: " \o e.message
      [] e.tag = "User" -> "User error: " \o e.message

\* status_code with Conflict answered as a bad request
ApiError_status_code_conflict_400(self) ==
    CASE self.tag = "Database" -> 500
      [] self.tag = "Validation" -> 400
      [] self.tag = "Authentication" -> 401
      [] self.tag = "Authorization" -> 403
      [] self.tag = "NotFound" -> 404
      [] self.tag = "Conflict" -> 400
      [] self.tag = "RateLimit" -> 429
      [] self.tag = "ExternalService" -> 503
      [] self.tag = "Internal" -> 500
      [] self.tag = "BadRequest" -> 400
      [] self.tag = "JsonParsing" -> 400
      [] self.tag = "Tournament" -> 400
      [] self.tag = "User" -> 400

\* status_code with RateLimit answered as service unavailable
ApiError_status_code_rate_limit_503(self) ==
    CASE self.tag = "Database" -> 500
      [] self.tag = "Validation" -> 400
      [] self.tag = "Authentication" -> 401
      [] self.tag = "Authorization" -> 403
      [] self.tag = "NotFound" -> 404
      [] self.tag = "Conflict" -> 409
      [] self.tag = "RateLimit" -> 503
      [] self.tag = "ExternalService" -> 503
      [] self.tag = "Internal" -> 500
      [] self.tag = "BadRequest" -> 400
      [] self.tag = "JsonParsing" -> 400
      [] self.tag = "Tournament" -> 400
      [] self.tag = "User" -> 400

\* ApiError::status_code
ApiError_status_code(self) ==
    CASE self.tag = "Database" -> 500
      [] self.tag = "Validation" -> 400
      [] self.tag = "Authentication" -> 401
      [] self.tag = "Authorization" -> 403
      [] self.tag = "NotFound" -> 404
      [] self.tag = "Conflict" -> 409
      [] self.tag = "RateLimit" -> 429
      [] self.tag = "ExternalService" -> 503
      [] self.tag = "Internal" -> 500
      [] self.tag = "BadRequest" -> 400
      [] self.tag = "JsonParsing" -> 400
      [] self.tag = "Tournament" -> 400
      [] self.tag = "User" -> 400

\* ApiError::error_code
ApiError_error_code(self) ==
    CASE self.tag = "Database" -> "DATABASE_ERROR"
      [] self.tag = "Validation" -> "VALIDATION_ERROR"
      [] self.tag = "Authentication" -> "AUTHENTICATION_ERROR"
      [] self.tag = "Authorization" -> "AUTHORIZATION_ERROR"
      [] self.tag = "NotFound" -> "NOT_FOUND"
      [] self.tag = "Conflict" -> "CONFLICT"
      [] self.tag = "RateLimit" -> "RATE_LIMIT_EXCEEDED"
      [] self.tag = "ExternalService" -> "EXTERNAL_SERVICE_ERROR"
      [] self.tag = "Internal" -> "INTERNAL_SERVER_ERROR"
      [] self.tag = "BadRequest" -> "BAD_REQUEST"
      [] self.tag = "JsonParsing" -> "JSON_PARSING_ERROR"
      [] self.tag = "Tournament" -> "TOURNAMENT_ERROR"
      [] self.tag = "User" -> "USER_ERROR"

\* details that reports a Validation field even when there is none
ApiError_details_always_field(self) ==
    CASE self.tag = "Validation" ->
            Some([field |-> IF IsSome(self.field) THEN self.field.some ELSE "_general"])
      [] self.tag = "NotFound" -> Some([resource |-> self.resource, id |-> self.id])
      [] self.tag = "ExternalService" -> Some([service |-> self.service])
      [] self.tag = "Tournament" ->
            IF IsSome(self.tournament_id)
            THEN Some([tournament_id |-> self.tournament_id.some]) ELSE None
      [] self.tag = "User" ->
            IF IsSome(self.user_id) THEN Some([user_id |-> self.user_id.some]) ELSE None
      [] OTHER -> None

\* ApiError::details: Some(JSON object) or None
ApiError_details(self) ==
    CASE self.tag = "Validation" ->
            IF IsSome(self.field) THEN Some([field |-> self.field.some]) ELSE None
      [] self.tag = "NotFound" -> Some([resource |-> self.resource, id |-> self.id])
      [] self.tag = "ExternalService" -> Some([service |-> self.service])
      [] self.tag = "Tournament" ->
            IF IsSome(self.tournament_id)
            THEN Some([tournament_id |-> self.tournament_id.some]) ELSE None
      [] self.tag = "User" ->
            IF IsSome(self.user_id) THEN Some([user_id |-> self.user_id.some]) ELSE None
      [] OTHER -> None

\* should_log_as_error that leaves ExternalService out
ApiError_should_log_as_error_two_variants(self) ==
    self.tag \in {"Database", "Internal"}

\* ApiError::should_log_as_error
ApiError_should_log_as_error(self) ==
    self.tag \in {"Database", "Internal", "ExternalService"}

\* ApiErrorResponse::new
ApiErrorResponse_new(message, error_code) ==
    [success |-> FALSE, message |-> message, error_code |-> error_code,
     details |-> None, request_id |-> None]

\* ApiErrorResponse::with_details
ApiErrorResponse_with_details(self, details) ==
    [self EXCEPT !.details = Some(details)]

\* one event handed to the log crate
LogEvent(level, message) == [level |-> level, message |-> message]

\* HttpResponse::build(status).json(body)
HttpResponse(status, body) == [status |-> status, body |-> body]

\* error_response that logs every error at error severity
error_response_always_error(self) ==
    LET created == ApiErrorResponse_new(Display(self), ApiError_error_code(self))
        details == ApiError_details(self)
        error_response == IF IsSome(details)
                          THEN ApiErrorResponse_with_details(created, details.some)
                          ELSE created
    IN [logged |-> <<LogEvent("error", "API Error: " \o Display(self))>>,
        value |-> HttpResponse(ApiError_status_code(self), error_response)]

\* error_response that never attaches the details
error_response_without_details(self) ==
    LET logged == IF ApiError_should_log_as_error(self)
                  THEN <<LogEvent("error", "API Error: " \o Display(self))>>
                  ELSE <<LogEvent("warn", "API Warning: " \o Display(self))>>
        created == ApiErrorResponse_new(Display(self), ApiError_error_code(self))
    IN [logged |-> logged,
        value |-> HttpResponse(ApiError_status_code(self), created)]

\* <ApiError as ResponseError>::error_response: the events it logs and the
\* response it returns
error_response(self) ==
    LET logged == IF ApiError_should_log_as_error(self)
                  THEN <<LogEvent("error", "API Error: " \o Display(self))>>
                  ELSE <<LogEvent("warn", "API Warning: " \o Display(self))>>
        created == ApiErrorResponse_new(Display(self), ApiError_error_code(self))
        details == ApiError_details(self)
        error_response == IF IsSome(details)
                          THEN ApiErrorResponse_with_details(created, details.some)
                          ELSE created
    IN [logged |-> logged,
        value |-> HttpResponse(ApiError_status_code(self), error_response)]

----------------------------------------------------------------------------
(* error/mod.rs: the From impls *)
KwConnection == <<"C", "o", "n", "n", "e", "c", "t", "i", "o", "n">>
KwTimeout == <<"t", "i", "m", "e", "o", "u", "t">>
KwDuplicate == <<"d", "u", "p", "l", "i", "c", "a", "t", "e">>
KwAlreadyExists == <<"a", "l", "r", "e", "a", "d", "y", " ", "e", "x", "i", "s", "t", "s">>
KwNotFound == <<"n", "o", "t", " ", "f", "o", "u", "n", "d">>
KwNoRecord == <<"N", "o", " ", "r", "e", "c", "o", "r", "d">>

\* from(surrealdb::Error) that tests for a duplicate before a lost connection
ApiError_from_surrealdb_duplicate_first(error) ==
    LET error_string == error IN
    [logged |-> <<LogEvent("error", "SurrealDB error: " \o StrOf(error))>>,
     value |->
        IF Contains(error_string, KwDuplicate) \/ Contains(error_string, KwAlreadyExists)
        THEN Conflict("Resource already exists")
        ELSE IF Contains(error_string, KwConnection) \/ Contains(error_string, KwTimeout)
        THEN Database("Database connection error")
        ELSE IF Contains(error_string, KwNotFound) \/ Contains(error_string, KwNoRecord)
        THEN NotFound("record", "unknown")
        ELSE Database(StrOf(error))]

\* from(surrealdb::Error) that tests for a missing record before a duplicate
ApiError_from_surrealdb_not_found_first(error) ==
    LET error_string == error IN
    [logged |-> <<LogEvent("error", "SurrealDB error: " \o StrOf(error))>>,
     value |->
        IF Contains(error_string, KwConnection) \/ Contains(error_string, KwTimeout)
        THEN Database("Database connection error")
        ELSE IF Contains(error_string, KwNotFound) \/ Contains(error_string, KwNoRecord)
        THEN NotFound("record", "unknown")
        ELSE IF Contains(error_string, KwDuplicate) \/ Contains(error_string, KwAlreadyExists)
        THEN Conflict("Resource already exists")
        ELSE Database(StrOf(error))]

\* from(surrealdb::Error) whose fallback drops the failure's text
ApiError_from_surrealdb_fixed_fallback(error) ==
    LET error_string == error IN
    [logged |-> <<LogEvent("error", "SurrealDB error: " \o StrOf(error))>>,
     value |->
        IF Contains(error_string, KwConnection) \/ Contains(error_string, KwTimeout)
        THEN Database("Database connection error")
        ELSE IF Contains(error_string, KwDuplicate) \/ Contains(error_string, KwAlreadyExists)
        THEN Conflict("Resource already exists")
        ELSE IF Contains(error_string, KwNotFound) \/ Contains(error_string, KwNoRecord)
        THEN NotFound("record", "unknown")
        ELSE Database("Database connection error")]

\* <ApiError as From<surrealdb::Error>>::from, error being the failure's
\* Display text: the events it logs and the ApiError it returns
ApiError_from_surrealdb(error) ==
    LET error_string == error IN
    [logged |-> <<LogEvent("error", "SurrealDB error: " \o StrOf(error))>>,
     value |->
        IF Contains(error_string, KwConnection) \/ Contains(error_string, KwTimeout)
        THEN Database("Database connection error")
        ELSE IF Contains(error_string, KwDuplicate) \/ Contains(error_string, KwAlreadyExists)
        THEN Conflict("Resource already exists")
        ELSE IF Contains(error_string, KwNotFound) \/ Contains(error_string, KwNoRecord)
        THEN NotFound("record", "unknown")
        ELSE Database(StrOf(error))]

\* from(serde_json::Error) that classifies the text as the data-store
\* conversion does
ApiError_from_serde_json_classified(error) ==
    [logged |-> <<LogEvent("warn", "JSON parsing error: " \o StrOf(error))>>,
     value |->
        IF Contains(error, KwConnection) \/ Contains(error, KwTimeout)
        THEN Database("Database connection error")
        ELSE IF Contains(error, KwDuplicate) \/ Contains(error, KwAlreadyExists)
        THEN Conflict("Resource already exists")
        ELSE IF Contains(error, KwNotFound) \/ Contains(error, KwNoRecord)
        THEN NotFound("record", "unknown")
        ELSE JsonParsing(StrOf(error))]

\* <ApiError as From<serde_json::Error>>::from
ApiError_from_serde_json(error) ==
    [logged |-> <<LogEvent("warn", "JSON parsing error: " \o StrOf(error))>>,
     value |-> JsonParsing(StrOf(error))]

\* from(ValidationError) that loses the field
ApiError_from_validation_without_field(error) ==
    [logged |-> <<>>,
     value |-> Validation(error.message, None)]

\* <ApiError as From<ValidationError>>::from
ApiError_from_validation(error) ==
    [logged |-> <<>>,
     value |-> Validation(error.message, error.field)]

----------------------------------------------------------------------------
(* The inputs of the error pipeline *)

\* what the texts of foreign failures are put together from
Fragments ==
    { <<"C", "o", "n", "n", "e", "c", "t", "i", "o", "n">>,
      <<"c", "o", "n", "n", "e", "c", "t", "i", "o", "n">>,
      <<" ", "t", "i", "m", "e", "o", "u", "t">>,
      <<"d", "u", "p", "l", "i", "c", "a", "t", "e">>,
      <<" ", "k", "e", "y">>,
      <<"a", "l", "r", "e", "a", "d", "y">>,
      <<" ", "e", "x", "i", "s", "t", "s">>,
      <<"n", "o", "t", " ", "f", "o", "u", "n", "d">>,
      <<"N", "o", " ", "r", "e", "c", "o", "r", "d">>,
      <<"T", "i", "m", "e", "o", "u", "t">>,
      <<"n", "o", " ", "r", "e", "c", "o", "r", "d">>,
      <<"e", "r", "r">> }

\* the texts of at most n fragments
RECURSIVE Texts(_)
Texts(n) ==
    IF n = 0 THEN {<<>>}
    ELSE LET shorter == Texts(n - 1) IN
         shorter \cup {t \o f : t \in shorter, f \in Fragments}

\* a failure's Display text is never empty
ForeignTexts == Texts(MaxFrags) \ {<<>>}

Messages == {"", "test", "Username already exists"}
OptionalIds == {None, Some("123")}

\* ApiError values as handlers construct them, each variant with several payloads
ApiErrors ==
    {Database(m) : m \in Messages}
    \cup {Validation(m, f) : m \in Messages, f \in {None, Some("email")}}
    \cup {Authentication(m) : m \in Messages}
    \cup {Authorization(m) : m \in Messages}
    \cup {NotFound(r, i) : r \in {"user", "tournament"}, i \in {"123", "nonexistent"}}
    \cup {Conflict(m) : m \in Messages}
    \cup {RateLimit(m) : m \in Messages}
    \cup {ExternalService(s, m) : s \in {"Steam API"}, m \in Messages}
    \cup {Internal(m) : m \in Messages}
    \cup {BadRequest(m) : m \in Messages}
    \cup {JsonParsing(m) : m \in Messages}
    \cup {Tournament(m, i) : m \in Messages, i \in OptionalIds}
    \cup {User(m, i) : m \in Messages, i \in OptionalIds}

\* the ValidationErrors a handler may convert
ValidationErrorInputs ==
    {Call(c).error : c \in {k \in ClosureSet : ~Call(k).ok}}
    \cup {ValidationError_new("Test error", "TEST")}

----------------------------------------------------------------------------
(* The life of one ApiError: created, rendered, gone *)

\* a handler constructs the ApiError itself
Construct ==
    /\ err = None
    /\ \E e \in ApiErrors : err' = e
    /\ foreign' = None
    /\ UNCHANGED <<log, response, validationVars, primitiveVars, serverVars>>

\* a data-store failure is converted (the ? operator in a handler)
FromSurreal ==
    /\ err = None
    /\ \E text \in ForeignTexts :
        LET r == ApiError_from_surrealdb(text) IN
        /\ err' = r.value
        /\ log' = log \o r.logged
        /\ foreign' = [kind |-> "surrealdb", text |-> text]
    /\ UNCHANGED <<response, validationVars, primitiveVars, serverVars>>

\* a serialization failure is converted
FromSerde ==
    /\ err = None
    /\ \E text \in ForeignTexts :
        LET r == ApiError_from_serde_json(text) IN
        /\ err' = r.value
        /\ log' = log \o r.logged
        /\ foreign' = [kind |-> "serde_json", text |-> text]
    /\ UNCHANGED <<response, validationVars, primitiveVars, serverVars>>

\* a ValidationError is converted
FromValidation ==
    /\ err = None
    /\ \E ve \in ValidationErrorInputs :
        LET r == ApiError_from_validation(ve) IN
        /\ err' = r.value
        /\ log' = log \o r.logged
        /\ foreign' = [kind |-> "validation", error |-> ve]
    /\ UNCHANGED <<response, validationVars, primitiveVars, serverVars>>

\* the handler returned Err(err): actix renders it with error_response
Render ==
    /\ err # None
    /\ response = None
    /\ LET r == error_response(err) IN
        /\ response' = r.value
        /\ log' = log \o r.logged
    /\ UNCHANGED <<foreign, err, validationVars, primitiveVars, serverVars>>

\* the response is sent; the error and the request are gone
Finish ==
    /\ response # None
    /\ err' = None
    /\ foreign' = None
    /\ log' = <<>>
    /\ response' = None
    /\ UNCHANGED <<validationVars, primitiveVars, serverVars>>

NextError ==
    \/ Construct
    \/ FromSurreal
    \/ FromSerde
    \/ FromValidation
    \/ Render
    \/ Finish

SpecError == Init /\ [][NextError]_vars

----------------------------------------------------------------------------
(* The inputs of the validator primitives *)

\* the strings of at most n characters of alphabet A
RECURSIVE StringsOver(_, _)
StringsOver(A, n) ==
    IF n = 0 THEN {<<>>}
    ELSE LET shorter == StringsOver(A, n - 1) IN
         shorter \cup {Append(s, c) : s \in shorter, c \in A}

\* n times the character c
Repeat(c, n) == [i \in 1..n |-> c]

FieldNames == {"f", "username"}

RequiredInputs ==
    {None} \cup {Some(s) : s \in StringsOver({"a", " ", "\t"}, MaxStrLen)}

LengthInputs == StringsOver({"a", "b", "c", "é"}, MaxStrLen)
LengthBounds == 0..(MaxStrLen + 1)

\* the values of the tests and of the specification
EmailExamples ==
    { <<"a", "@", "b", ".", "c", "o">>,
      <<"@", "b", ".", "c", "o">>,
      <<"a", "@">>,
      <<"u", "s", "e", "r", "@", "e", "x", "a", "m", "p", "l", "e", ".", "c", "o", "m">>,
      <<"t", "e", "s", "t", ".", "u", "s", "e", "r", "+", "t", "a", "g", "@", "d", "o", "m", "a", "i", "n", ".", "c", "o", ".", "u", "k">>,
      <<"i", "n", "v", "a", "l", "i", "d", "-", "e", "m", "a", "i", "l">>,
      <<"a", "@", "b", "@", "c", ".", "c", "o">> }

\* a first character, a run of 'a' and an enumerated tail: lengths on both
\* sides of 3 and of 255
EmailInputs ==
    EmailExamples \cup
    {s \o Repeat("a", k) \o t :
        s \in StringsOver({"a", "@", ".", "\t", "é"}, 1),
        k \in {0, 1, 2, 250, 251},
        t \in StringsOver({"a", "@", ".", "\t", "é"}, MaxStrLen)}

UsernameExamples ==
    { <<"u", "s", "e", "r", "1", "2", "3">>,
      <<"t", "e", "s", "t", "-", "u", "s", "e", "r">>,
      <<"u", "s", "e", "r", "_", "n", "a", "m", "e">>,
      <<"u", "s">>,
      <<"-", "u", "s", "e", "r">>,
      <<"u", "s", "e", "r", "@", "n", "a", "m", "e">> }

\* lengths on both sides of 3 and of 50
UsernameInputs ==
    UsernameExamples \cup
    {Repeat("a", k) \o t :
        k \in {0, 47, 48},
        t \in StringsOver({"a", "1", "-", "_", "@", "é"}, MaxStrLen)}

PasswordExamples ==
    { <<"P", "a", "s", "s", "w", "o", "r", "d", "1", "2", "3">>,
      <<"p", "a", "s", "s", "w", "o", "r", "d", "1", "2", "3">>,
      <<"P", "A", "S", "S", "W", "O", "R", "D">>,
      <<"M", "y", "S", "t", "r", "0", "n", "g", "P", "@", "s", "s", "w", "0", "r", "d">>,
      <<"p", "a", "s", "s", "w", "o", "r", "d">>,
      <<"P", "A", "S", "S", "W", "O", "R", "D", "1", "2", "3">>,
      <<"P", "a", "s", "s", "w", "o", "r", "d">>,
      <<"P", "a", "s", "s", "1">> }

\* a run of '#' and an enumerated tail: lengths on both sides of 8 and of 128
PasswordInputs ==
    PasswordExamples \cup
    {Repeat("#", k) \o t :
        k \in {0, 5, 125, 126},
        t \in StringsOver({"a", "A", "1", "é"}, MaxStrLen)}

TournamentNameExamples ==
    { <<"M", "y", " ", "T", "o", "u", "r", "n", "a", "m", "e", "n", "t">>,
      <<"S", "p", "r", "i", "n", "g", " ", "C", "h", "a", "m", "p", "i", "o", "n", "s", "h", "i", "p", " ", "2", "0", "2", "4">>,
      <<>>,
      <<" ", " ">>,
      <<"a", "b">> }

\* lengths on both sides of 3 and of 100, names of whitespace only included
TournamentNameInputs ==
    TournamentNameExamples \cup
    {Repeat("a", k) \o t :
        k \in {0, 97, 98}, t \in StringsOver({"a", " ", "é"}, MaxStrLen)}
    \cup {Repeat(" ", k) : k \in {3, 4, 100, 101}}

\* i32 values: the small ones and the two ends of the type
I32_MAX == 2147483647
I32_MIN == -I32_MAX - 1
SmallInts == (-MaxInt)..MaxInt
IntInputs == SmallInts \cup {I32_MIN, I32_MAX}

----------------------------------------------------------------------------
(* One call of a validator primitive: called, returned *)

CallRequired ==
    /\ call = None
    /\ \E value \in RequiredInputs, field \in FieldNames :
        /\ call' = [fn |-> "required", value |-> value, field |-> field]
        /\ ret' = required(value, field)
    /\ UNCHANGED <<validationVars, errorVars, serverVars>>

CallLength ==
    /\ call = None
    /\ \E value \in LengthInputs, min \in LengthBounds, max \in LengthBounds,
          field \in FieldNames :
        /\ call' = [fn |-> "length", value |-> value, min |-> min, max |-> max,
                    field |-> field]
        /\ ret' = length(value, min, max, field)
    /\ UNCHANGED <<validationVars, errorVars, serverVars>>

CallEmail ==
    /\ call = None
    /\ \E value \in EmailInputs, field \in FieldNames :
        /\ call' = [fn |-> "email", value |-> value, field |-> field]
        /\ ret' = email(value, field)
    /\ UNCHANGED <<validationVars, errorVars, serverVars>>

CallUsername ==
    /\ call = None
    /\ \E value \in UsernameInputs, field \in FieldNames :
        /\ call' = [fn |-> "username", value |-> value, field |-> field]
        /\ ret' = username(value, field)
    /\ UNCHANGED <<validationVars, errorVars, serverVars>>

CallPassword ==
    /\ call = None
    /\ \E value \in PasswordInputs, field \in FieldNames :
        /\ call' = [fn |-> "password", value |-> value, field |-> field]
        /\ ret' = password(value, field)
    /\ UNCHANGED <<validationVars, errorVars, serverVars>>

CallTournamentName ==
    /\ call = None
    /\ \E value \in TournamentNameInputs, field \in FieldNames :
        /\ call' = [fn |-> "tournament_name", value |-> value, field |-> field]
        /\ ret' = tournament_name(value, field)
    /\ UNCHANGED <<validationVars, errorVars, serverVars>>

CallPositiveInteger ==
    /\ call = None
    /\ \E value \in IntInputs, field \in FieldNames :
        /\ call' = [fn |-> "positive_integer", value |-> value, field |-> field]
        /\ ret' = positive_integer(value, field)
    /\ UNCHANGED <<validationVars, errorVars, serverVars>>

CallRange ==
    /\ call = None
    /\ \E value \in IntInputs, min \in SmallInts, max \in SmallInts,
          field \in FieldNames :
        /\ call' = [fn |-> "range", value |-> value, min |-> min, max |-> max,
                    field |-> field]
        /\ ret' = range(value, min, max, field)
    /\ UNCHANGED <<validationVars, errorVars, serverVars>>

\* the caller has taken the result
Return ==
    /\ call # None
    /\ call' = None
    /\ ret' = None
    /\ UNCHANGED <<validationVars, errorVars, serverVars>>

NextPrimitives ==
    \/ CallRequired
    \/ CallLength
    \/ CallEmail
    \/ CallUsername
    \/ CallPassword
    \/ CallTournamentName
    \/ CallPositiveInteger
    \/ CallRange
    \/ Return

SpecPrimitives == Init /\ [][NextPrimitives]_vars

----------------------------------------------------------------------------
(* validation.rs: ValidationErrors::to_field_map; utils/mod.rs:
   validate_required_fields; error/mod.rs: ApiResultExt *)

\* to_field_map that keeps only the last message of a field
RECURSIVE FieldMapFold_overwrite(_, _)
FieldMapFold_overwrite(errors, map) ==
    IF errors = <<>> THEN map
    ELSE LET error == Head(errors)
             field == IF IsSome(error.field) THEN error.field.some ELSE "_general"
         IN FieldMapFold_overwrite(Tail(errors),
                [k \in DOMAIN map \cup {field} |->
                    IF k = field THEN <<error.message>> ELSE map[k]])

\* the loop of to_field_map: map.entry(field).or_insert_with(Vec::new).push(message)
RECURSIVE FieldMapFold(_, _)
FieldMapFold(errors, map) ==
    IF errors = <<>> THEN map
    ELSE LET error == Head(errors)
             field == IF IsSome(error.field) THEN error.field.some ELSE "_general"
             entry == IF field \in DOMAIN map THEN map[field] ELSE <<>>
         IN FieldMapFold(Tail(errors),
                [k \in DOMAIN map \cup {field} |->
                    IF k = field THEN Append(entry, error.message) ELSE map[k]])

\* ValidationErrors::to_field_map, from HashMap::new()
ValidationErrors_to_field_map(self) == FieldMapFold(self.errors, [k \in {} |-> <<>>])

\* validate_required_fields that takes whitespace for a value
validate_required_fields_untrimmed(fields) ==
    LET missing_fields ==
            SelectSeq(fields, LAMBDA f : ~(IsSome(f.value) /\ f.value.some # <<>>))
        names == [i \in 1..Len(missing_fields) |-> missing_fields[i].field_name]
    IN IF names = <<>> THEN Ok(Unit) ELSE Err(names)

\* validation::validate_required_fields
validate_required_fields(fields) ==
    LET missing_fields ==
            SelectSeq(fields, LAMBDA f : ~(IsSome(f.value) /\ Trim(f.value.some) # <<>>))
        names == [i \in 1..Len(missing_fields) |-> missing_fields[i].field_name]
    IN IF names = <<>> THEN Ok(Unit) ELSE Err(names)

\* with_context that forgets the failure it wraps
ApiResultExt_with_context_only(self, context) ==
    IF self.ok THEN self ELSE Err(Internal(context))

\* ApiResultExt::with_context; a failure e is its Display text
ApiResultExt_with_context(self, context) ==
    IF self.ok THEN self ELSE Err(Internal(context \o ": " \o self.error))

\* ApiResultExt::not_found
ApiResultExt_not_found(self, resource, id) ==
    IF self.ok THEN self ELSE Err(NotFound(resource, id))

\* ApiResultExt::validation_error
ApiResultExt_validation_error(self, field) ==
    IF self.ok THEN self ELSE Err(Validation(self.error, Some(field)))

\* how many errors a ValidationErrors of the inputs holds
MaxErrors == 3

\* how many fields a validate_required_fields call lists
MaxFields == 3

\* the sequences over A of at most n elements
RECURSIVE SeqsOver(_, _)
SeqsOver(A, n) ==
    IF n = 0 THEN {<<>>}
    ELSE LET shorter == SeqsOver(A, n - 1) IN
         shorter \cup {Append(s, a) : s \in shorter, a \in A}

\* ValidationErrors of errors as add_error / add put them in
ValidationErrorsInputs ==
    LET FieldMapErrors ==
            {ValidationError_with_field(m, f, "INVALID") :
                m \in {"Username required", "Email invalid"},
                f \in {"username", "email", "_general"}}
            \cup {ValidationError_new(m, "INVALID") :
                     m \in {"Username required", "Email invalid"}}
    IN {[errors |-> es] : es \in SeqsOver(FieldMapErrors, MaxErrors)}

\* lists of (field_name, value) pairs: absent, empty, blank and present values
RequiredFieldsInputs ==
    LET RequiredFieldPairs ==
            {[field_name |-> n, value |-> v] :
                n \in {"username", "email"},
                v \in {None, Some(<<>>), Some(<<" ", "\t">>), Some(<<"j", "o", "h", "n">>)}}
    IN SeqsOver(RequiredFieldPairs, MaxFields)

\* Result<T, E> values the adapters are applied to; E by its Display text
ForeignResults ==
    {Ok(v) : v \in {"value", Unit}}
    \cup {Err(e) : e \in {"", "boom", "invalid digit found in string"}}

CallToFieldMap ==
    /\ call = None
    /\ \E self \in ValidationErrorsInputs :
        /\ call' = [fn |-> "to_field_map", self |-> self]
        /\ ret' = ValidationErrors_to_field_map(self)
    /\ UNCHANGED <<validationVars, errorVars, serverVars>>

CallValidateRequiredFields ==
    /\ call = None
    /\ \E fields \in RequiredFieldsInputs :
        /\ call' = [fn |-> "validate_required_fields", fields |-> fields]
        /\ ret' = validate_required_fields(fields)
    /\ UNCHANGED <<validationVars, errorVars, serverVars>>

CallWithContext ==
    /\ call = None
    /\ \E self \in ForeignResults, context \in {"", "Failed to parse"} :
        /\ call' = [fn |-> "with_context", self |-> self, context |-> context]
        /\ ret' = ApiResultExt_with_context(self, context)
    /\ UNCHANGED <<validationVars, errorVars, serverVars>>

CallNotFound ==
    /\ call = None
    /\ \E self \in ForeignResults, resource \in {"user", "tournament"},
          id \in {"123", ""} :
        /\ call' = [fn |-> "not_found", self |-> self, resource |-> resource, id |-> id]
        /\ ret' = ApiResultExt_not_found(self, resource, id)
    /\ UNCHANGED <<validationVars, errorVars, serverVars>>

CallValidationError ==
    /\ call = None
    /\ \E self \in ForeignResults, field \in {"age", ""} :
        /\ call' = [fn |-> "validation_error", self |-> self, field |-> field]
        /\ ret' = ApiResultExt_validation_error(self, field)
    /\ UNCHANGED <<validationVars, errorVars, serverVars>>

NextHelpers ==
    \/ CallToFieldMap
    \/ CallValidateRequiredFields
    \/ CallWithContext
    \/ CallNotFound
    \/ CallValidationError
    \/ Return

SpecHelpers == Init /\ [][NextHelpers]_vars

----------------------------------------------------------------------------
(* examples/error_handling_demo.rs: the create_user and create_tournament
   handlers *)

\* first that answers with the newest error
ValidationErrors_first_newest(self) ==
    IF self.errors = <<>> THEN None ELSE Some(self.errors[Len(self.errors)])

\* ValidationErrors::first
ValidationErrors_first(self) ==
    IF self.errors = <<>> THEN None ELSE Some(self.errors[1])

\* the constructors of ApiError the handlers use
ApiError_validation(message) == Validation(message, None)
ApiError_validation_with_field(message, field) == Validation(message, Some(field))
ApiError_conflict(message) == Conflict(message)
ApiError_tournament(message) == Tournament(message, None)
ApiError_tournament_with_id(message, tournament_id) ==
    Tournament(message, Some(tournament_id))

\* Option<&str>::unwrap_or
unwrap_or(o, default) == IF IsSome(o) THEN o.some ELSE default

\* str::to_lowercase on the letters of the inputs
to_lowercase(s) ==
    LET UpperLetters ==
            <<"A", "B", "C", "D", "E", "F", "G", "H", "I", "J", "K", "L", "M",
              "N", "O", "P", "Q", "R", "S", "T", "U", "V", "W", "X", "Y", "Z">>
        LowerLetters ==
            <<"a", "b", "c", "d", "e", "f", "g", "h", "i", "j", "k", "l", "m",
              "n", "o", "p", "q", "r", "s", "t", "u", "v", "w", "x", "y", "z">>
    IN [i \in 1..Len(s) |->
           IF \E k \in 1..26 : UpperLetters[k] = s[i]
           THEN LowerLetters[CHOOSE k \in 1..26 : UpperLetters[k] = s[i]]
           ELSE s[i]]

\* logging::request_debug, auth_event, tournament_event: one event each
request_debug(method, path) == LogEvent("debug", method \o " " \o path)
auth_event(event, user_id) ==
    LogEvent("info", "Auth event: " \o event \o " for user " \o user_id)
tournament_event(event, tournament_id, user_id) ==
    LogEvent("info", "Tournament event: " \o event \o " for tournament "
                     \o tournament_id \o " by user " \o user_id)

\* create_user; uuid is what Uuid::new_v4() gives.  The record tells the
\* return statement reached, the events logged and the value returned.
create_user(req, uuid) ==
    LET b1 == ValidationBuilder_validate(ValidationBuilder_new,
                  [fn |-> "required", value |-> Some(req.username), field |-> "username"]).self
        b2 == ValidationBuilder_validate(b1,
                  [fn |-> "username", value |-> req.username, field |-> "username"]).self
        b3 == ValidationBuilder_validate(b2,
                  [fn |-> "email", value |-> req.email, field |-> "email"]).self
        b4 == ValidationBuilder_validate(b3,
                  [fn |-> "password", value |-> req.password, field |-> "password"]).self
        validation_result == ValidationBuilder_build_unit(b4)
        entry == <<request_debug("POST", "/api/users")>>
    IN IF ~validation_result.ok
       THEN LET first_error == ValidationErrors_first(validation_result.error) IN
            IF IsSome(first_error)
            THEN [at |-> "first_error", logged |-> entry,
                  value |-> Err(ApiError_validation_with_field(
                                    first_error.some.message,
                                    unwrap_or(first_error.some.field, "unknown")))]
            ELSE [at |-> "fallback", logged |-> entry,
                  value |-> Err(ApiError_validation("Multiple validation errors occurred"))]
       ELSE IF req.username = <<"a", "d", "m", "i", "n">>
       THEN [at |-> "conflict", logged |-> entry,
             value |-> Err(ApiError_conflict("Username already exists"))]
       ELSE IF req.username = <<"e", "r", "r", "o", "r">>
       THEN [at |-> "database", logged |-> entry,
             value |-> Err(Database("Failed to create user in database"))]
       ELSE LET user == [id |-> "user_" \o uuid, username |-> StrOf(req.username),
                         email |-> StrOf(req.email)]
            IN [at |-> "created",
                logged |-> Append(entry, auth_event("user_created", user.id)),
                value |-> Ok(HttpResponse(201, user))]

\* create_tournament.  An Err whose first() is None is not returned: the
\* handler goes on to the business rules.
create_tournament(req, uuid) ==
    LET b1 == ValidationBuilder_validate(ValidationBuilder_new,
                  [fn |-> "tournament_name", value |-> req.name, field |-> "name"]).self
        b2 == ValidationBuilder_validate(b1,
                  [fn |-> "length", value |-> req.description, min |-> 10, max |-> 500,
                   field |-> "description"]).self
        b3 == ValidationBuilder_validate(b2,
                  [fn |-> "range", value |-> req.max_participants, min |-> 2,
                   max |-> 256, field |-> "max_participants"]).self
        validation_result == ValidationBuilder_build_unit(b3)
        entry == <<request_debug("POST", "/api/tournaments")>>
        first_error == IF validation_result.ok THEN None
                       ELSE ValidationErrors_first(validation_result.error)
    IN IF IsSome(first_error)
       THEN [at |-> "first_error", logged |-> entry,
             value |-> Err(ApiError_validation_with_field(
                               first_error.some.message,
                               unwrap_or(first_error.some.field, "unknown")))]
       ELSE IF Contains(to_lowercase(req.name),
                        <<"f", "o", "r", "b", "i", "d", "d", "e", "n">>)
       THEN [at |-> IF validation_result.ok THEN "forbidden" ELSE "fallback",
             logged |-> entry,
             value |-> Err(ApiError_tournament("Tournament name contains forbidden words"))]
       ELSE IF req.max_participants > 128
       THEN [at |-> IF validation_result.ok THEN "too_large" ELSE "fallback",
             logged |-> entry,
             value |-> Err(ApiError_tournament_with_id(
                               "Tournament too large for current infrastructure",
                               "temp_tournament_id"))]
       ELSE LET tournament_id == "tournament_" \o uuid IN
            [at |-> IF validation_result.ok THEN "created" ELSE "fallback",
             logged |-> Append(entry, tournament_event("created", tournament_id, "demo_user")),
             value |-> Ok(HttpResponse(201,
                          [id |-> tournament_id, name |-> StrOf(req.name),
                           description |-> StrOf(req.description),
                           max_participants |-> req.max_participants,
                           status |-> "created"]))]

\* the ids Uuid::new_v4() may give
Uuids == {"0f8fad5bd9cb469fa16570867728950e", "7c9e6679742540de944be07fc1f90ae7"}

\* request bodies: names that pass, names that fail, the two names the
\* demo treats specially
CreateUserRequests ==
    {[username |-> u, email |-> e, password |-> p] :
        u \in {<<>>, <<"a", "b">>, <<"-", "u", "s", "e", "r">>, <<"a", "d", "m", "i", "n">>,
               <<"e", "r", "r", "o", "r">>, <<"j", "o", "h", "n">>},
        e \in {<<>>, <<"i", "n", "v", "a", "l", "i", "d">>, <<"a", "@", "b", ".", "c", "o">>},
        p \in {<<>>, <<"w", "e", "a", "k">>,
               <<"P", "a", "s", "s", "w", "o", "r", "d", "1", "2", "3">>}}

TournamentRequests ==
    {[name |-> n, description |-> d, max_participants |-> m] :
        n \in {<<"a", "b">>, <<" ", " ", " ">>, <<"C", "u", "p">>,
               <<"F", "o", "r", "b", "i", "d", "d", "e", "n">>,
               <<"f", "o", "r", "b", "i", "d", "d", "e", "n", " ", "c", "u", "p">>},
        d \in {<<"s", "h", "o", "r", "t">>,
               <<"A", " ", "l", "o", "n", "g", " ", "t", "o", "u", "r", "n", "e", "y">>},
        m \in {1, 2, 128, 129, 256, 257}}

CallCreateUser ==
    /\ call = None
    /\ \E req \in CreateUserRequests, uuid \in Uuids :
        /\ call' = [fn |-> "create_user", req |-> req]
        /\ ret' = create_user(req, uuid)
    /\ UNCHANGED <<validationVars, errorVars, serverVars>>

CallCreateTournament ==
    /\ call = None
    /\ \E req \in TournamentRequests, uuid \in Uuids :
        /\ call' = [fn |-> "create_tournament", req |-> req]
        /\ ret' = create_tournament(req, uuid)
    /\ UNCHANGED <<validationVars, errorVars, serverVars>>

NextHandlers ==
    \/ CallCreateUser
    \/ CallCreateTournament
    \/ Return

SpecHandlers == Init /\ [][NextHandlers]_vars

----------------------------------------------------------------------------
(* main.rs, lib.rs, routes/health: the server from start to exit *)

\* status that propagates the failure of the probe with the ? operator
status_propagating(probe) ==
    IF probe.ok
    THEN [logged |-> <<>>,
          value |-> Ok(HttpResponse(200,
                       [name |-> "La Liga de los Muertos", status |-> "OK",
                        version |-> "v0.1.0", database |-> Some("Connected")]))]
    ELSE LET r == ApiError_from_surrealdb(probe.error) IN
         [logged |-> r.logged, value |-> Err(r.value)]

\* routes::health::status; probe is what DB.query("RETURN 'connected'") gave
status(probe) ==
    LET db_status == IF probe.ok THEN Some("Connected") ELSE Some("Disconnected")
        logged == IF probe.ok THEN <<>>
                  ELSE <<LogEvent("warn", "Health check database query failed: "
                                          \o StrOf(probe.error))>>
        health == [name |-> "La Liga de los Muertos", status |-> "OK",
                   version |-> "v0.1.0", database |-> db_status]
    IN [logged |-> logged, value |-> Ok(HttpResponse(200, health))]

\* what a request to the DB client gives: Ok, or a failure with its text
DbOutcomes == {Ok(Unit)} \cup {Err(text) : text \in ForeignTexts}

\* the values of the PORT variable: unset, a port, no number, too big for u16
PortValues == {None, Some(<<"8", "0", "8", "0">>), Some(<<"a", "b", "c">>),
               Some(<<"7", "0", "0", "0", "0">>)}

U16_MAX == 65535

\* str::parse::<u16> of a text without sign
RECURSIVE DecimalValue(_)
DecimalValue(s) ==
    LET DecimalDigits == <<"0", "1", "2", "3", "4", "5", "6", "7", "8", "9">> IN
    IF s = <<>> THEN 0
    ELSE 10 * DecimalValue(SubSeq(s, 1, Len(s) - 1))
         + (CHOOSE d \in 0..9 : DecimalDigits[d + 1] = s[Len(s)])
parse_u16(s) ==
    IF s # <<>> /\ (\A i \in 1..Len(s) : is_ascii_digit(s[i]))
       /\ DecimalValue(s) <= U16_MAX
    THEN Ok(DecimalValue(s))
    ELSE Err("ParseIntError")

\* logging::startup_info, database_info, schema_init, schema_success, server_ready
startup_info(p) ==
    << LogEvent("info", "Starting La Liga de los Muertos backend"),
       LogEvent("info", "Server will bind to 0.0.0.0:" \o ToString(p)) >>
database_info == << LogEvent("info", "Connected to SurrealDB"),
                    LogEvent("info", "Using namespace / database") >>
schema_init == << LogEvent("info", "Initializing database schema...") >>
schema_success == << LogEvent("info", "Database schema initialized successfully") >>
server_ready(p) ==
    << LogEvent("info", "Server ready and listening on port " \o ToString(p)) >>

\* main up to init_db: the port is read and parsed, logging starts.
\* expect() panics on a PORT that is no u16.
Start ==
    /\ main = "start"
    /\ \E value \in PortValues :
        LET parsed == parse_u16(IF IsSome(value) THEN value.some
                                ELSE <<"4", "0", "0", "0">>) IN
        IF parsed.ok
        THEN /\ main' = "connect"
             /\ port' = Some(parsed.value)
             /\ log' = log \o startup_info(parsed.value)
             /\ exit' = exit
        ELSE /\ main' = "panicked"
             /\ port' = port
             /\ exit' = [panic |-> "Invalid PORT value"]
             /\ log' = log
    /\ UNCHANGED <<db, listening, foreign, err, response, validationVars, primitiveVars>>

\* a step of init_db that goes on whatever the DB client answered
DbStep_unchecked(at, op, next, before, after) ==
    /\ main = at
    /\ \E outcome \in DbOutcomes :
        /\ db' = Append(db, [op |-> op, ok |-> outcome.ok])
        /\ main' = next
        /\ log' = log \o before \o after
        /\ exit' = exit
    /\ UNCHANGED <<port, listening, foreign, err, response, validationVars, primitiveVars>>

\* one `DB.<op>(..).await?` of init_db / init_schema: on Ok it goes on to
\* the next statement; on Err the ? operator converts the failure with
\* From<surrealdb::Error> and init_db returns it, which main returns in turn
DbStep(at, op, next, before, after) ==
    /\ main = at
    /\ \E outcome \in DbOutcomes :
        /\ db' = Append(db, [op |-> op, ok |-> outcome.ok])
        /\ IF outcome.ok
           THEN /\ main' = next
                /\ log' = log \o before \o after
                /\ exit' = exit
           ELSE LET r == ApiError_from_surrealdb(outcome.error) IN
                /\ main' = "exited"
                /\ log' = log \o before \o r.logged
                /\ exit' = Err(r.value)
    /\ UNCHANGED <<port, listening, foreign, err, response, validationVars, primitiveVars>>

\* DB.connect(&db_url).await?
Connect == DbStep("connect", "connect", "signin", <<>>, <<>>)

\* DB.signin(Root { .. }).await?
SignIn == DbStep("signin", "signin", "use_ns", <<>>, <<>>)

\* DB.use_ns(&namespace).use_db(&database).await?; logging::database_info
UseNs == DbStep("use_ns", "use_ns", "init_schema", <<>>, database_info)

\* init_schema().await?: schema_init, DB.query(schema_query).await?, schema_success
InitSchema == DbStep("init_schema", "init_schema", "bind", schema_init, schema_success)

\* logging::server_ready, then HttpServer::new(..).bind(..)?.run(); bind may
\* fail (the port is taken), and main returns the io error
Bind ==
    /\ main = "bind"
    /\ log' = log \o server_ready(port.some)
    /\ \/ /\ listening' = TRUE
          /\ main' = "serving"
          /\ exit' = exit
       \/ /\ listening' = listening
          /\ main' = "exited"
          /\ exit' = Err("io::Error")
    /\ UNCHANGED <<port, db, foreign, err, response, validationVars, primitiveVars>>

\* GET /health while the server runs
Status ==
    /\ listening
    /\ call = None
    /\ \E probe \in DbOutcomes :
        /\ call' = [fn |-> "status", probe |-> probe]
        /\ ret' = status(probe)
    /\ UNCHANGED <<validationVars, errorVars, serverVars>>

\* run().await returns: the server has stopped
Stop ==
    /\ main = "serving"
    /\ call = None
    /\ listening' = FALSE
    /\ main' = "exited"
    /\ \E r \in {Ok(Unit), Err("io::Error")} : exit' = r
    /\ UNCHANGED <<port, db, validationVars, errorVars, primitiveVars>>

NextServer ==
    \/ Start
    \/ Connect
    \/ SignIn
    \/ UseNs
    \/ InitSchema
    \/ Bind
    \/ Status
    \/ Return
    \/ Stop

SpecServer == Init /\ [][NextServer]_vars

----------------------------------------------------------------------------
(* Several validation passes and primitive calls at once: each request owns
   its ValidationBuilder, and the steps of different requests interleave *)

\* the chains of interleaved passes: two failures in a row, a failure after
\* a success, a success alone, and no closure at all
ConcurrentChains ==
    { << [fn |-> "required", value |-> None, field |-> "u"],
         [fn |-> "length", value |-> <<"a", "b">>, min |-> 3, max |-> 10, field |-> "u"] >>,
      << [fn |-> "range", value |-> 5, min |-> 1, max |-> 10, field |-> "n"],
         [fn |-> "positive_integer", value |-> -1, field |-> "age"] >>,
      << [fn |-> "required", value |-> Some(<<"t", "e", "s", "t">>), field |-> "username"] >>,
      <<>> }

\* a request starts its pass while others may be under way
NewBuilderConcurrent(p) ==
    /\ builder[p] = None
    /\ result[p] = None
    /\ \E cs \in ConcurrentChains : closures' = [closures EXCEPT ![p] = cs]
    /\ builder' = [builder EXCEPT ![p] = ValidationBuilder_new]
    /\ position' = [position EXCEPT ![p] = 0]
    /\ executed' = [executed EXCEPT ![p] = <<>>]
    /\ UNCHANGED <<result, errorVars, primitiveVars, serverVars>>

\* one step of one pass
PassStep(p) ==
    \/ NewBuilderConcurrent(p)
    \/ Validate(p)
    \/ \E v \in SuccessValues : Build(p, v)
    \/ BuildUnit(p)
    \/ DropResult(p)

NextConcurrent ==
    \/ \E p \in Passes : PassStep(p)
    \/ CallPositiveInteger
    \/ Return

SpecConcurrent == Init /\ [][NextConcurrent]_vars

----------------------------------------------------------------------------
(* Claims about the validation accumulator *)

\* the closures of a chain that fail, in call order
Failing(cs) == SelectSeq(cs, LAMBDA c : ~Call(c).ok)

\* the errors the failing closures of a chain return, in call order
ErrorsOf(cs) == [i \in 1..Len(Failing(cs)) |-> Call(Failing(cs)[i]).error]

\* C1: validate invokes every closure handed to it exactly once, in call
\* order and whatever failed before; the error list the builder holds, and
\* the one build / build_unit returns, has one error per failing closure, in
\* invocation order.
C1_EveryClosureRunsErrorsInOrder ==
    \A p \in Passes :
        /\ builder[p] # None =>
              LET done == SubSeq(closures[p], 1, position[p]) IN
              /\ executed[p] = done
              /\ builder[p].errors.errors = ErrorsOf(done)
        /\ result[p] # None =>
              /\ executed[p] = closures[p]
              /\ ~result[p].ret.ok =>
                    /\ Len(result[p].ret.error.errors) = Len(Failing(closures[p]))
                    /\ result[p].ret.error.errors = ErrorsOf(closures[p])
              /\ result[p].ret.ok => Len(Failing(closures[p])) = 0

\* the example of the specification: [required(None,"u"), length("ab",3,10,"u")]
\* built with build_unit gives two errors, REQUIRED then LENGTH
C1_Witness ==
    \E p \in Passes :
        /\ result[p] # None
        /\ result[p].call = "build_unit"
        /\ closures[p] = << [fn |-> "required", value |-> None, field |-> "u"],
                            [fn |-> "length", value |-> <<"a", "b">>, min |-> 3,
                             max |-> 10, field |-> "u"] >>
        /\ executed[p] = closures[p]
        /\ ~result[p].ret.ok
        /\ [i \in 1..2 |-> result[p].ret.error.errors[i].code] = <<"REQUIRED", "LENGTH">>

\* C2: build(v) returns Ok(v) exactly when no closure of the chain failed
\* (a chain of no closures included) and Err with the complete error list
\* otherwise; Err never carries an empty list; build_unit is build(()).
C2_BuildOkIffNoFailure ==
    \A p \in Passes :
        result[p] # None =>
            LET r == result[p].ret IN
            /\ r.ok <=> Failing(closures[p]) = <<>>
            /\ r.ok => r = Ok(result[p].arg)
            /\ ~r.ok => /\ r.error.errors # <<>>
                        /\ r.error.errors = ErrorsOf(closures[p])
            /\ result[p].call = "build_unit" => result[p].arg = Unit

\* build("success") after one passing and one failing closure: Err with the
\* one error
C2_Witness ==
    \E p \in Passes :
        /\ result[p] # None
        /\ result[p].call = "build"
        /\ Len(closures[p]) = 2
        /\ Call(closures[p][1]).ok
        /\ ~Call(closures[p][2]).ok
        /\ result[p].ret = Err([errors |-> <<Call(closures[p][2]).error>>])

----------------------------------------------------------------------------
(* Claims about the error taxonomy, the renderer and the conversions *)

\* the table of section 3 of the specification: variant -> <<status, code>>
StatusTable ==
    [t \in Tags |->
        CASE t = "Database" -> <<500, "DATABASE_ERROR">>
          [] t = "Validation" -> <<400, "VALIDATION_ERROR">>
          [] t = "Authentication" -> <<401, "AUTHENTICATION_ERROR">>
          [] t = "Authorization" -> <<403, "AUTHORIZATION_ERROR">>
          [] t = "NotFound" -> <<404, "NOT_FOUND">>
          [] t = "Conflict" -> <<409, "CONFLICT">>
          [] t = "RateLimit" -> <<429, "RATE_LIMIT_EXCEEDED">>
          [] t = "ExternalService" -> <<503, "EXTERNAL_SERVICE_ERROR">>
          [] t = "Internal" -> <<500, "INTERNAL_SERVER_ERROR">>
          [] t = "BadRequest" -> <<400, "BAD_REQUEST">>
          [] t = "JsonParsing" -> <<400, "JSON_PARSING_ERROR">>
          [] t = "Tournament" -> <<400, "TOURNAMENT_ERROR">>
          [] t = "User" -> <<400, "USER_ERROR">>]

\* C3: for every ApiError, whatever its payload, status_code() and
\* error_code() are the pair the table gives for its variant tag.
C3_StatusAndCodeByTag ==
    err # None =>
        /\ err.tag \in Tags
        /\ <<ApiError_status_code(err), ApiError_error_code(err)>> = StatusTable[err.tag]

\* a Conflict made by converting a data-store failure answers 409 / CONFLICT
C3_Witness ==
    /\ err # None
    /\ foreign # None
    /\ err.tag = "Conflict"
    /\ ApiError_status_code(err) = 409
    /\ ApiError_error_code(err) = "CONFLICT"

\* C4: should_log_as_error() is true exactly for Database, Internal and
\* ExternalService, whatever the payload.
C4_LogAsErrorExactlyThree ==
    err # None =>
        (ApiError_should_log_as_error(err)
            <=> err.tag \in {"Database", "Internal", "ExternalService"})

\* an ExternalService error with a message is logged as an error
C4_Witness ==
    /\ err # None
    /\ err.tag = "ExternalService"
    /\ err.message = "test"
    /\ ApiError_should_log_as_error(err)

\* C5: every call of error_response emits exactly one log event, at error
\* severity when should_log_as_error() and at warning severity otherwise,
\* whose text ends with the error's to_string().
C5_RenderLogsOnce ==
    [][(response = None /\ response' # None) =>
          /\ Len(log') = Len(log) + 1
          /\ SubSeq(log', 1, Len(log)) = log
          /\ log'[Len(log')].level =
                (IF err.tag \in {"Database", "Internal", "ExternalService"}
                 THEN "error" ELSE "warn")
          /\ \E prefix \in {"API Error: ", "API Warning: "} :
                log'[Len(log')].message = prefix \o Display(err)]_vars

\* a NotFound error was rendered and logged once, as a warning
C5_Witness ==
    /\ response # None
    /\ err.tag = "NotFound"
    /\ log = <<LogEvent("warn", "API Warning: " \o Display(err))>>

\* C6: from its creation (by conversion of a foreign failure included) to its
\* rendered response, every error causes exactly one log event.
C6_ExactlyOneLogEventPerError ==
    response # None => Len(log) = 1

\* C7: converting a data-store failure, a serialization failure or a
\* ValidationError into an ApiError emits no log event and changes nothing
\* but the ApiError it produces.
C7_ConversionIsPure ==
    [][(err = None /\ err' # None /\ foreign' # None) =>
          /\ log' = log
          /\ response' = response
          /\ UNCHANGED <<validationVars, primitiveVars, serverVars>>]_vars

\* the classification of the specification, rule by rule
C8_Classified(text) ==
    IF Contains(text, KwConnection) \/ Contains(text, KwTimeout)
    THEN [tag |-> "Database", message |-> "Database connection error"]
    ELSE IF Contains(text, KwDuplicate) \/ Contains(text, KwAlreadyExists)
    THEN [tag |-> "Conflict", message |-> "Resource already exists"]
    ELSE IF Contains(text, KwNotFound) \/ Contains(text, KwNoRecord)
    THEN [tag |-> "NotFound", resource |-> "record", id |-> "unknown"]
    ELSE [tag |-> "Database", message |-> StrOf(text)]

\* C8: a data-store failure converts by the first rule that matches its text,
\* case-sensitively: Connection/timeout, then duplicate/already exists, then
\* not found/No record, else Database with the original text.
C8_FirstMatchingRule ==
    (err # None /\ foreign # None /\ foreign.kind = "surrealdb") =>
        err = C8_Classified(foreign.text)

\* a text matching the first and the second rule goes by the first
C8_Witness ==
    /\ err # None /\ foreign # None /\ foreign.kind = "surrealdb"
    /\ foreign.text = KwDuplicate \o <<" ", "t", "i", "m", "e", "o", "u", "t">>
    /\ err = Database("Database connection error")

KwDuplicateKey == <<"d", "u", "p", "l", "i", "c", "a", "t", "e", " ", "k", "e", "y">>
KwConnectionTimeout == <<"c", "o", "n", "n", "e", "c", "t", "i", "o", "n", " ", "t", "i", "m", "e", "o", "u", "t">>

\* C9 as stated: every data-store failure whose text contains "duplicate key"
\* converts to Conflict.
C9_DuplicateKeyIsConflict ==
    (err # None /\ foreign # None /\ foreign.kind = "surrealdb"
        /\ Contains(foreign.text, KwDuplicateKey)) =>
        err.tag = "Conflict"

\* C9 amended: every data-store failure whose text contains "duplicate key"
\* and neither "Connection" nor "timeout" converts to Conflict.
C9_DuplicateKeyWithoutConnectionIsConflict ==
    (err # None /\ foreign # None /\ foreign.kind = "surrealdb"
        /\ Contains(foreign.text, KwDuplicateKey)
        /\ ~Contains(foreign.text, KwConnection)
        /\ ~Contains(foreign.text, KwTimeout)) =>
        err = Conflict("Resource already exists")

\* "duplicate keynot found" matches the second and the third rule: Conflict
C9_Witness ==
    /\ err # None /\ foreign # None /\ foreign.kind = "surrealdb"
    /\ foreign.text = KwDuplicateKey \o KwNotFound
    /\ err.tag = "Conflict"

\* C10 as stated: every data-store failure whose text contains neither
\* "duplicate key" nor "connection timeout" converts to Database with the
\* original text as message.
C10_NeitherKeywordKeepsText ==
    (err # None /\ foreign # None /\ foreign.kind = "surrealdb"
        /\ ~Contains(foreign.text, KwDuplicateKey)
        /\ ~Contains(foreign.text, KwConnectionTimeout)) =>
        err = Database(StrOf(foreign.text))

\* C10 amended: every data-store failure whose text contains none of
\* "Connection", "timeout", "duplicate", "already exists", "not found" and
\* "No record" converts to Database with the original text as message.
C10_NoKeywordKeepsText ==
    (err # None /\ foreign # None /\ foreign.kind = "surrealdb"
        /\ \A kw \in {KwConnection, KwTimeout, KwDuplicate, KwAlreadyExists,
                      KwNotFound, KwNoRecord} : ~Contains(foreign.text, kw)) =>
        err = Database(StrOf(foreign.text))

\* "connection key" (lower case) matches no rule and is kept verbatim
C10_Witness ==
    /\ err # None /\ foreign # None /\ foreign.kind = "surrealdb"
    /\ foreign.text = <<"c", "o", "n", "n", "e", "c", "t", "i", "o", "n", " ", "k", "e", "y">>
    /\ err = Database("connection key")

\* C11: converting a serialization failure always gives JsonParsing with the
\* failure's original text as message, whatever keywords the text contains.
C11_SerdeIsJsonParsing ==
    (err # None /\ foreign # None /\ foreign.kind = "serde_json") =>
        /\ err.tag = "JsonParsing"
        /\ err.message = StrOf(foreign.text)
        /\ DOMAIN err = {"tag", "message"}

\* a serialization failure whose text would match two data-store rules
C11_Witness ==
    /\ err # None /\ foreign # None /\ foreign.kind = "serde_json"
    /\ Contains(foreign.text, KwDuplicate)
    /\ Contains(foreign.text, KwTimeout)
    /\ err = JsonParsing(StrOf(foreign.text))

\* C12: converting a ValidationError gives Validation with the same message
\* and the same field (absent stays absent); the code is not carried and
\* error_code() is VALIDATION_ERROR whatever the code was.
C12_ValidationKeepsMessageAndField ==
    (err # None /\ foreign # None /\ foreign.kind = "validation") =>
        /\ err.tag = "Validation"
        /\ err.message = foreign.error.message
        /\ err.field = foreign.error.field
        /\ DOMAIN err = {"tag", "message", "field"}
        /\ ApiError_error_code(err) = "VALIDATION_ERROR"

\* a ValidationError with a field and the code LENGTH was converted
C12_Witness ==
    /\ err # None /\ foreign # None /\ foreign.kind = "validation"
    /\ foreign.error.code = "LENGTH"
    /\ foreign.error.field = Some("u")
    /\ err.field = Some("u")
    /\ ApiError_error_code(err) = "VALIDATION_ERROR"

----------------------------------------------------------------------------
(* Claims about the validator primitives *)

\* a primitive was called and has returned
Called(fn) == call # None /\ call.fn = fn

\* the number of characters of a string
CharCount(s) == Len(s)

\* C14 as stated: length fails with LENGTH exactly when the number of
\* characters of value (not of bytes) is outside [min, max], and succeeds
\* otherwise.
C14_LengthCountsCharacters ==
    Called("length") =>
        /\ ret.ok <=> (call.min <= CharCount(call.value) /\ CharCount(call.value) <= call.max)
        /\ ~ret.ok => ret.error.code = "LENGTH"

\* 0x20..0x7E on the alphabet of the model
IsPrintableAscii(c) == is_ascii(c) /\ c \notin {"\t", "\n"}

\* how many times '@' occurs
CountAt(s) == Cardinality({i \in 1..Len(s) : s[i] = "@"})

\* C15 as stated: email succeeds only if value holds exactly one '@', not as
\* first or last character, its length is strictly between 3 and 255 and all
\* its characters are printable ASCII; otherwise it fails with INVALID_EMAIL.
C15_EmailExactlyOneAt ==
    Called("email") =>
        /\ ret.ok =>
              /\ CountAt(call.value) = 1
              /\ Head(call.value) # "@"
              /\ call.value[Len(call.value)] # "@"
              /\ StrLen(call.value) > 3 /\ StrLen(call.value) < 255
              /\ \A i \in 1..Len(call.value) : IsPrintableAscii(call.value[i])
        /\ ~ret.ok => ret.error.code = "INVALID_EMAIL"

\* C15 amended: email succeeds exactly when value holds at least one '@',
\* neither its first nor its last character is '@', its length is strictly
\* between 3 and 255 and all its characters are ASCII (control characters
\* included); otherwise it fails with INVALID_EMAIL.
C15_EmailAtLeastOneAt ==
    Called("email") =>
        /\ ret.ok <=>
              /\ CountAt(call.value) >= 1
              /\ Head(call.value) # "@"
              /\ call.value[Len(call.value)] # "@"
              /\ StrLen(call.value) > 3 /\ StrLen(call.value) < 255
              /\ \A i \in 1..Len(call.value) : is_ascii(call.value[i])
        /\ ~ret.ok => ret.error = [message |-> "Invalid email format",
                                   field |-> Some(call.field), code |-> "INVALID_EMAIL"]

\* "a@b@c.co", with two '@', is accepted
C15_Witness ==
    /\ Called("email")
    /\ call.value = <<"a", "@", "b", "@", "c", ".", "c", "o">>
    /\ CountAt(call.value) = 2
    /\ ret.ok

C19_RangeAndPositive ==
    /\ Called("range") =>
          /\ ret.ok <=> (call.min <= call.value /\ call.value <= call.max)
          /\ call.min > call.max => ~ret.ok
          /\ ~ret.ok => ret.error.code = "OUT_OF_RANGE"
    /\ Called("positive_integer") =>
          /\ ret.ok <=> call.value > 0
          /\ ~ret.ok => ret.error.code = "NOT_POSITIVE"

\* range at its lower bound succeeds
C19_Witness ==
    /\ Called("range")
    /\ call.value = call.min
    /\ call.min < call.max
    /\ ret.ok

\* t is v without its leading and trailing whitespace
C20_IsTrimOf(t, v) ==
    \E i \in 1..Len(v) : \E j \in i..Len(v) :
        /\ t = SubSeq(v, i, j)
        /\ ~IsWhitespace(v[i]) /\ ~IsWhitespace(v[j])
        /\ \A k \in 1..Len(v) : (k < i \/ k > j) => IsWhitespace(v[k])

\* C20: required fails with REQUIRED and the given field exactly when value
\* is absent or holds whitespace only; otherwise it returns value without
\* its leading and trailing whitespace.
C20_RequiredRule ==
    Called("required") =>
        LET blank == call.value = None
                     \/ \A i \in 1..Len(call.value.some) : IsWhitespace(call.value.some[i])
        IN /\ ~ret.ok <=> blank
           /\ ~ret.ok => /\ ret.error.code = "REQUIRED"
                         /\ ret.error.field = Some(call.field)
           /\ ret.ok => C20_IsTrimOf(ret.value, call.value.some)

\* " a<tab>" comes back as "a"
C20_Witness ==
    /\ Called("required")
    /\ call.value = Some(<<" ", "a", "\t">>)
    /\ ret = Ok(<<"a">>)

----------------------------------------------------------------------------
(* Claims about details(), the rendered body and the log severity *)

\* the variants whose details() is always None
C21_NoDetailTags ==
    {"Database", "Authentication", "Authorization", "Conflict", "RateLimit",
     "Internal", "BadRequest", "JsonParsing"}

\* C21: details() is {field} for Validation exactly when the field is present,
\* {resource, id} always for NotFound, {service} always for ExternalService,
\* {tournament_id} for Tournament and {user_id} for User exactly when the id
\* is present, and None for the eight other variants and for
\* Validation/Tournament/User without their optional field.
C21_DetailsByVariant ==
    err # None =>
        LET d == ApiError_details(err) IN
        /\ err.tag = "Validation" =>
              /\ (d # None) <=> (err.field # None)
              /\ d # None => d.some = [field |-> err.field.some]
        /\ err.tag = "NotFound" => d = Some([resource |-> err.resource, id |-> err.id])
        /\ err.tag = "ExternalService" => d = Some([service |-> err.service])
        /\ err.tag = "Tournament" =>
              /\ (d # None) <=> (err.tournament_id # None)
              /\ d # None => d.some = [tournament_id |-> err.tournament_id.some]
        /\ err.tag = "User" =>
              /\ (d # None) <=> (err.user_id # None)
              /\ d # None => d.some = [user_id |-> err.user_id.some]
        /\ err.tag \in C21_NoDetailTags => d = None

\* a Validation error without field has no details
C21_Witness ==
    /\ err # None
    /\ err.tag = "Validation"
    /\ err.field = None
    /\ ApiError_details(err) = None

\* C22: the rendered response of every ApiError has the status of
\* status_code() and a body with success = false, message = to_string(),
\* error_code = error_code(), details = details() and request_id null.
C22_RenderedResponse ==
    response # None =>
        /\ response.status = StatusTable[err.tag][1]
        /\ response.body.success = FALSE
        /\ response.body.message = Display(err)
        /\ response.body.error_code = StatusTable[err.tag][2]
        /\ response.body.details = ApiError_details(err)
        /\ response.body.request_id = None
        /\ DOMAIN response.body = {"success", "message", "error_code", "details", "request_id"}

\* a NotFound was rendered: 404 with its resource and id in the details
C22_Witness ==
    /\ response # None
    /\ err = NotFound("user", "123")
    /\ response = [status |-> 404,
                   body |-> [success |-> FALSE,
                             message |-> "Resource not found: user with id 123",
                             error_code |-> "NOT_FOUND",
                             details |-> Some([resource |-> "user", id |-> "123"]),
                             request_id |-> None]]

\* C26: should_log_as_error() is true exactly when status_code() is a 5xx
\* status; a rendered 4xx response is logged at warning severity and a
\* rendered 5xx response at error severity.
C26_SeverityFollowsStatusClass ==
    /\ err # None =>
          (ApiError_should_log_as_error(err)
              <=> (ApiError_status_code(err) >= 500 /\ ApiError_status_code(err) <= 599))
    /\ response # None =>
          /\ log # <<>>
          /\ log[Len(log)].level = (IF response.status >= 500 THEN "error" ELSE "warn")

\* a 503 was rendered and logged at error severity
C26_Witness ==
    /\ response # None
    /\ response.status = 503
    /\ log[Len(log)].level = "error"

----------------------------------------------------------------------------
(* Claims about interleaved validation passes *)

\* what a pass over the chain cs, ended with success value v, returns when
\* nothing else runs
C23_Alone(cs, v) ==
    IF \A i \in 1..Len(cs) : Call(cs[i]).ok
    THEN Ok(v)
    ELSE Err([errors |-> ErrorsOf(cs)])

\* C23: with passes and primitive calls interleaved in any order, the final
\* result of every pass is the one its own chain produces alone, and the
\* errors a builder holds are those of its own closures and no others.
C23_PassesAreIsolated ==
    \A p \in Passes :
        /\ builder[p] # None =>
              builder[p].errors.errors = ErrorsOf(SubSeq(closures[p], 1, position[p]))
        /\ result[p] # None =>
              result[p].ret = C23_Alone(closures[p], result[p].arg)

\* pass 1 has failed with two errors, REQUIRED then LENGTH, while pass 2,
\* half way through its chain, holds none, and a primitive call is under way
C23_Witness ==
    /\ result[1] # None
    /\ ~result[1].ret.ok
    /\ Len(result[1].ret.error.errors) = 2
    /\ result[1].ret.error.errors[1].code = "REQUIRED"
    /\ result[1].ret.error.errors[2].code = "LENGTH"
    /\ builder[2] # None
    /\ position[2] = 1
    /\ Len(closures[2]) = 2
    /\ builder[2].errors.errors = <<>>
    /\ call # None

----------------------------------------------------------------------------
(* Claims about to_field_map, the result adapters and validate_required_fields *)

\* the key an error is filed under
C24_KeyOf(e) == IF e.field = None THEN "_general" ELSE e.field.some

\* C24: to_field_map has exactly one key per distinct field name of the
\* sequence, "_general" standing for no field; each key maps to the messages
\* of the errors of that field in insertion order, and the messages of all
\* keys together are as many as the errors.
C24_FieldMap ==
    Called("to_field_map") =>
        LET es == call.self.errors
            Sum[K \in SUBSET DOMAIN ret] ==
                IF K = {} THEN 0
                ELSE LET k == CHOOSE x \in K : TRUE IN Len(ret[k]) + Sum[K \ {k}]
        IN /\ DOMAIN ret = {C24_KeyOf(es[i]) : i \in 1..Len(es)}
           /\ \A k \in DOMAIN ret :
                 LET mine == SelectSeq(es, LAMBDA e : C24_KeyOf(e) = k) IN
                 ret[k] = [i \in 1..Len(mine) |-> mine[i].message]
           /\ Sum[DOMAIN ret] = Len(es)

\* two errors of one field around an error without field: two keys, the
\* field's messages in insertion order
C24_Witness ==
    /\ Called("to_field_map")
    /\ Len(call.self.errors) = 3
    /\ call.self.errors[2].field = None
    /\ DOMAIN ret = {"username", "_general"}
    /\ ret["username"] = <<"Username required", "Email invalid">>

\* C27: the adapters leave Ok(v) unchanged; on a failure e, with_context(c)
\* gives Internal with message "c: e", not_found(r, i) gives NotFound{r, i}
\* whatever e, and validation_error(f) gives Validation with the text of e as
\* message and the field present and equal to f.
C27_Adapters ==
    /\ (call # None /\ call.fn \in {"with_context", "not_found", "validation_error"}) =>
          /\ call.self.ok => ret = call.self
          /\ ~call.self.ok => ~ret.ok
    /\ (Called("with_context") /\ ~call.self.ok) =>
          ret.error = [tag |-> "Internal",
                       message |-> call.context \o ": " \o call.self.error]
    /\ (Called("not_found") /\ ~call.self.ok) =>
          ret.error = [tag |-> "NotFound", resource |-> call.resource, id |-> call.id]
    /\ (Called("validation_error") /\ ~call.self.ok) =>
          ret.error = [tag |-> "Validation", message |-> call.self.error,
                       field |-> Some(call.field)]

\* a parse failure given a context
C27_Witness ==
    /\ Called("with_context")
    /\ call.self = Err("invalid digit found in string")
    /\ ret = Err(Internal("Failed to parse: invalid digit found in string"))

\* C28: validate_required_fields returns Ok exactly when every listed field
\* has a value that is not empty after trimming; otherwise Err with the names
\* of the absent or blank fields, once per occurrence and in input order, and
\* no present non-blank field.
C28_RequiredFields ==
    Called("validate_required_fields") =>
        LET fs == call.fields
            Blank(f) == f.value = None
                        \/ \A i \in 1..Len(f.value.some) : IsWhitespace(f.value.some[i])
            blanks == {i \in 1..Len(fs) : Blank(fs[i])}
        IN /\ ret.ok <=> blanks = {}
           /\ ret.ok => ret = Ok(Unit)
           /\ ~ret.ok =>
                 /\ Len(ret.error) = Cardinality(blanks)
                 /\ \E pos \in [1..Len(ret.error) -> blanks] :
                       /\ \A i, j \in 1..Len(ret.error) : i < j => pos[i] < pos[j]
                       /\ \A i \in 1..Len(ret.error) : ret.error[i] = fs[pos[i]].field_name

\* the example of the tests: username present, email absent, password
\* blank -- here with the names of the model
C28_Witness ==
    /\ Called("validate_required_fields")
    /\ Len(call.fields) = 3
    /\ call.fields[1].value = Some(<<"j", "o", "h", "n">>)
    /\ call.fields[2].value = None
    /\ call.fields[3].value = Some(<<" ", "\t">>)
    /\ call.fields[2].field_name = "email"
    /\ call.fields[3].field_name = "email"
    /\ ret = Err(<<"email", "email">>)

----------------------------------------------------------------------------
(* Claims about the create_user and create_tournament handlers *)

\* the failures of the validators of a handler, in the order it invokes them
C25_Failures(rs) ==
    LET failed == SelectSeq(rs, LAMBDA r : ~r.ok) IN
    [i \in 1..Len(failed) |-> failed[i].error]

C25_UserFailures(req) ==
    C25_Failures(<< required(Some(req.username), "username"),
                    username(req.username, "username"),
                    email(req.email, "email"),
                    password(req.password, "password") >>)

C25_TournamentFailures(req) ==
    C25_Failures(<< tournament_name(req.name, "name"),
                    length(req.description, 10, 500, "description"),
                    range(req.max_participants, 2, 256, "max_participants") >>)

\* C25: when a validator of create_user or create_tournament fails, the
\* handler returns the Validation error made of the message and the field of
\* the first failure in invocation order, and reaches neither the business
\* rules nor the success response; the fallback branches are never taken.
C25_FirstFailureReturned ==
    (call # None /\ call.fn \in {"create_user", "create_tournament"}) =>
        LET failures == IF call.fn = "create_user"
                        THEN C25_UserFailures(call.req)
                        ELSE C25_TournamentFailures(call.req)
        IN /\ ret.at # "fallback"
           /\ failures # <<>> =>
                 /\ ret.at = "first_error"
                 /\ ret.value = Err([tag |-> "Validation",
                                     message |-> failures[1].message,
                                     field |-> failures[1].field])
           /\ failures = <<>> => ret.at # "first_error"

\* create_user with a username that fails, an email that fails and a weak
\* password answers with the username failure
C25_Witness ==
    /\ Called("create_user")
    /\ Len(C25_UserFailures(call.req)) = 3
    /\ ret.at = "first_error"
    /\ ret.value = Err(Validation(
                       "Username must be 3-50 characters, start with alphanumeric, and contain only alphanumeric, hyphens, or underscores",
                       Some("username")))

----------------------------------------------------------------------------
(* Claims about the health endpoint and the startup of the server *)

\* C29: whether the probe query succeeds or fails, the health endpoint
\* answers with a success status, status "OK" and name "La Liga de los
\* Muertos"; database is "Connected" exactly when the probe succeeded and
\* "Disconnected" otherwise; a failed probe is logged as one warning and is
\* not turned into an ApiError.
C29_HealthNeverFails ==
    Called("status") =>
        /\ ret.value.ok
        /\ ret.value.value.status >= 200 /\ ret.value.value.status <= 299
        /\ ret.value.value.body.status = "OK"
        /\ ret.value.value.body.name = "La Liga de los Muertos"
        /\ (ret.value.value.body.database = Some("Connected")) <=> call.probe.ok
        /\ ~call.probe.ok =>
              /\ ret.value.value.body.database = Some("Disconnected")
              /\ Len(ret.logged) = 1
              /\ ret.logged[1].level = "warn"
        /\ call.probe.ok => ret.logged = <<>>

\* a probe that failed with "Connection timeout": 200, Disconnected, one warning
C29_Witness ==
    /\ Called("status")
    /\ call.probe = Err(KwConnection \o <<" ", "t", "i", "m", "e", "o", "u", "t">>)
    /\ ret.value.ok
    /\ ret.value.value.body.database = Some("Disconnected")
    /\ ret.logged = <<LogEvent("warn",
                        "Health check database query failed: Connection timeout")>>

\* the steps of init_db in the order of the code
C30_Steps == <<"connect", "signin", "use_ns", "init_schema">>

\* C30: init_db connects, signs in, selects namespace and database and
\* initializes the schema in this order, each step only after the one before
\* succeeded; a failed step is the last one made and is returned as an
\* ApiError; the server listens only after all four steps succeeded.
C30_StartupIsFailFastAndOrdered ==
    /\ Len(db) <= Len(C30_Steps)
    /\ \A i \in 1..Len(db) :
          /\ db[i].op = C30_Steps[i]
          /\ i < Len(db) => db[i].ok
    /\ (db # <<>> /\ ~db[Len(db)].ok) =>
          /\ main = "exited"
          /\ exit # None
          /\ ~exit.ok
          /\ exit.error.tag \in Tags
          /\ ~listening
    /\ main \in {"bind", "serving"} =>
          (Len(db) = Len(C30_Steps) /\ \A i \in 1..Len(db) : db[i].ok)
    /\ listening =>
          /\ main = "serving"
          /\ Len(db) = Len(C30_Steps)
          /\ \A i \in 1..Len(db) : db[i].ok

\* sign-in fails after a successful connect: main has returned the error,
\* nothing further was asked of the database and nothing listens
C30_Witness ==
    /\ Len(db) = 2
    /\ db[1].ok
    /\ ~db[2].ok
    /\ main = "exited"
    /\ ~exit.ok
    /\ ~listening

=============================================================================
